---- MODULE Spec2Model ----
(***************************************************************************)
(* Model of the microservice orchestrator of                               *)
(* src/src/microservices/native-orchestrator.c: the service registry, the  *)
(* load balancer, the health-check worker, the message queue with its      *)
(* dispatcher worker, and the circuit breaker.                             *)
(***************************************************************************)
EXTENDS Integers, Sequences, FiniteSets, TLC

\* ------------------------------------------------------------------ bounds
MaxNodes == 2
MaxRoundRobinNodes == 3
MaxSelections == 3
MaxThreshold == 3
MaxTimeout == 1
MaxTime == 4
MaxCalls == 4
MaxMsgs == 3
MaxQueueNodes == 1
MaxProbeNodes == 1
MaxDispatchNodes == 2
MaxDispatchMsgs == 2
MaxUnimplementedMsgs == 1

\* --------------------------------------------------------------- constants
NULL == 0
HEALTHY == 1
UNHEALTHY == 0
INT_MAX == 2147483647
INT_MIN == -INT_MAX - 1

ServiceNames == {"payments", "billing"}
Hosts == {"10.0.0.1"}
Ports == {8080}
Strategies == {"LB_ROUND_ROBIN", "LB_LEAST_CONNECTIONS", "LB_WEIGHTED", "LB_IP_HASH"}

Senders == {"client"}
Payloads == {"payload"}
\* msg->priority as eghact_send_message sets it
DefaultPriority == 5

\* values the wrapped function of a circuit-breaker call may return (0: success)
FuncResults == {0, 1, -1}
\* the threads that may call circuit_breaker_call
CBThreads == {1, 2}

\* What an out-of-bounds read of the instances array yields: no node of the list.
GARBAGE == -1

VARIABLES
    services,        \* registry->services: the linked list, head first
    num_services,    \* registry->num_services
    reg_lock,        \* holder of registry->lock ("none" when free)
    strategy,        \* load_balancer->strategy
    current_index,   \* load_balancer->current_index
    next_id,         \* sequence number of the next generated service_id
    hc_pc,           \* health_check_worker: "idle" (sleeping) or "probing"
    hc_cur,          \* health_check_worker: position of `current`, NULL at end
    n_sel,           \* history: number of successful selections
    last_discover,   \* history: name asked, copy of the node returned, and how many
                     \* nodes of that name were healthy and registered at the call
    rets_unregistered, \* history: values returned for a name never registered
    rets_nohealthy,  \* history: values returned for a registered name, none healthy
    rr_hist,         \* history: per name, nodes selected since its healthy set changed
    messages,        \* the Message structs allocated and not yet freed, by sequence number
    mq_head,         \* message_queue->head
    mq_tail,         \* message_queue->tail
    q_lock,          \* holder of message_queue->lock ("none" when free)
    next_msg,        \* sequence number of the next message accepted
    d_pc,            \* message_dispatcher_worker: position in the loop
    d_msg,           \* message_dispatcher_worker: `msg`
    d_target,        \* message_dispatcher_worker: copy of the node `target` points to
    deq_order,       \* history: messages in the order the dispatcher popped them
    dispatched,      \* history: per message processed, in order, what became of it
    cb,              \* the CircuitBreaker struct
    now,             \* what time(NULL) returns
    cb_pc,           \* per thread: position in circuit_breaker_call
    cb_result,       \* per thread: `result`, what func returned
    cb_tmp,          \* per thread: the failure_count read by failure_count++
    cb_ret,          \* per thread: what the last call returned
    cb_entry,        \* history, per thread: the breaker and the time when the call checked it
    cb_invoked,      \* history, per thread: whether the call has invoked func
    cb_tfunc,        \* history, per thread: the time at which func returned
    cb_log,          \* history: outcome of every completed call, in order of completion
    cb_fails,        \* history: failing calls completed since failure_count was last reset
    reg_log,         \* history: per call of eghact_register_service, its arguments and what it returned
    dereg_asked,     \* history: identifiers whose deregistration a caller has asked for
    send_rets,       \* history: the values eghact_send_message has returned
    last_probe,      \* history: what the last probe met and the status it left
    stop_asked,      \* history: TRUE once the shutdown of the orchestrator has been asked for
    peers_up         \* the network: TRUE once every peer accepts connections and answers OK

regVars == <<services, num_services, reg_lock, strategy, current_index, next_id,
             hc_pc, hc_cur>>
regHist == <<n_sel, last_discover, rets_unregistered, rets_nohealthy, rr_hist>>
qVars == <<messages, mq_head, mq_tail, q_lock, next_msg, d_pc, d_msg, d_target>>
qHist == <<deq_order, dispatched>>
cbVars == <<cb, now, cb_pc, cb_result, cb_tmp, cb_ret>>
cbHist == <<cb_entry, cb_invoked, cb_tfunc, cb_log, cb_fails>>
obsHist == <<reg_log, dereg_asked, send_rets, last_probe, stop_asked, peers_up>>
vars == <<regVars, regHist, qVars, qHist, cbVars, cbHist, obsHist>>

\* ------------------------------------------------------------ the registry

\* lines 103-109, mutated: the node starts with health_status 0
NewNode_Unhealthy(id, name, host, port) ==
    [service_id |-> id, service_name |-> name, host |-> host, port |-> port,
     health_status |-> UNHEALTHY, load |-> 0]

\* eghact_register_service, lines 103-109: the node as filled in before linking
NewNode(id, name, host, port) ==
    [service_id |-> id, service_name |-> name, host |-> host, port |-> port,
     health_status |-> HEALTHY, load |-> 0]

\* C's % on ints: the quotient truncates toward zero, the remainder has the
\* sign of a (written without -a, which INT_MIN does not have)
CRem(a, b) ==
    IF a >= 0 THEN a % b ELSE -((b - (a % b)) % b)

\* line 150, mutated: the counter is advanced by two
IncIndex_ByTwo(ci) ==
    IF ci >= INT_MAX - 1 THEN INT_MIN ELSE ci + 2

\* lb->current_index++ on a 32-bit int (wraps on the usual builds)
IncIndex(ci) ==
    IF ci = INT_MAX THEN INT_MIN ELSE ci + 1

\* lines 134-142, mutated: the health test is dropped
RECURSIVE CollectInstances_AnyHealth(_, _, _)
CollectInstances_AnyHealth(svcs, name, i) ==
    IF i > Len(svcs) THEN <<>>
    ELSE (IF svcs[i].service_name = name THEN <<i>> ELSE <<>>)
         \o CollectInstances_AnyHealth(svcs, name, i + 1)

\* lines 134-142: positions (in list order) of the healthy nodes of `name`
RECURSIVE CollectInstances(_, _, _)
CollectInstances(svcs, name, i) ==
    IF i > Len(svcs) THEN <<>>
    ELSE (IF svcs[i].service_name = name /\ svcs[i].health_status = HEALTHY
          THEN <<i>> ELSE <<>>)
         \o CollectInstances(svcs, name, i + 1)

\* lines 153-160, mutated: the comparison is turned round
RECURSIVE LeastConnections_Greater(_, _, _, _)
LeastConnections_Greater(svcs, inst, i, sel) ==
    IF i > Len(inst) THEN sel
    ELSE LeastConnections_Greater(svcs, inst, i + 1,
                          IF svcs[inst[i]].load > svcs[sel].load THEN inst[i] ELSE sel)

\* lines 153-160: first instance of minimal load, scanning with a strict <
RECURSIVE LeastConnections(_, _, _, _)
LeastConnections(svcs, inst, i, sel) ==
    IF i > Len(inst) THEN sel
    ELSE LeastConnections(svcs, inst, i + 1,
                          IF svcs[inst[i]].load < svcs[sel].load THEN inst[i] ELSE sel)

\* line 149: the subscript lb->current_index % num_instances (0 when the
\* round-robin branch is not taken)
RoundRobinIndex(inst, strat, ci) ==
    IF Len(inst) > 0 /\ strat = "LB_ROUND_ROBIN" THEN CRem(ci, Len(inst)) ELSE 0

\* lines 144-169, mutated: the branches of LB_WEIGHTED and LB_IP_HASH take
\* the first instance collected
SelectChoices_OthersTakeFirst(svcs, inst, strat, ci) ==
    IF Len(inst) = 0 THEN {NULL}
    ELSE CASE strat = "LB_ROUND_ROBIN" ->
                  LET k == RoundRobinIndex(inst, strat, ci)
                  IN  IF k >= 0 THEN {inst[k + 1]}
                      ELSE (1..Len(svcs)) \cup {NULL, GARBAGE}
           [] strat = "LB_LEAST_CONNECTIONS" ->
                  {LeastConnections(svcs, inst, 2, inst[1])}
           [] OTHER -> {inst[1]}

\* lines 144-169: the positions `selected` may take (NULL: none); an index
\* outside the array reads whatever lies there
SelectChoices(svcs, inst, strat, ci) ==
    IF Len(inst) = 0 THEN {NULL}
    ELSE CASE strat = "LB_ROUND_ROBIN" ->
                  LET k == RoundRobinIndex(inst, strat, ci)
                  IN  IF k >= 0 THEN {inst[k + 1]}
                      ELSE (1..Len(svcs)) \cup {NULL, GARBAGE}
           [] strat = "LB_LEAST_CONNECTIONS" ->
                  {LeastConnections(svcs, inst, 2, inst[1])}
           [] OTHER -> {NULL}

\* lines 144-151, mutated: the counter is advanced outside the test of num_instances
IndexAfter_Always(inst, strat, ci) ==
    IF strat = "LB_ROUND_ROBIN" THEN IncIndex(ci) ELSE ci

\* lines 144-151: the counter after the switch
IndexAfter(inst, strat, ci) ==
    IF Len(inst) > 0 /\ strat = "LB_ROUND_ROBIN" THEN IncIndex(ci) ELSE ci

\* lines 134-173, mutated: the health test of line 136 is an assignment,
\* every node met is made healthy
BumpLoad_SetsHealthy(svcs, sel) ==
    IF sel \in 1..Len(svcs)
    THEN [i \in 1..Len(svcs) |->
            [svcs[i] EXCEPT !.health_status = HEALTHY,
                            !.load = IF i = sel THEN @ + 1 ELSE @]]
    ELSE svcs

\* lines 171-173, mutated: the load of every node is incremented
BumpLoad_All(svcs, sel) ==
    IF sel \in 1..Len(svcs)
    THEN [i \in 1..Len(svcs) |-> [svcs[i] EXCEPT !.load = @ + 1]]
    ELSE svcs

\* lines 171-173: selected->load++
BumpLoad(svcs, sel) ==
    IF sel \in 1..Len(svcs)
    THEN [svcs EXCEPT ![sel].load = @ + 1]
    ELSE svcs

Registered(svcs, name) ==
    \E i \in 1..Len(svcs) : svcs[i].service_name = name

HealthySet(svcs, name) ==
    {svcs[i].service_id : i \in {j \in 1..Len(svcs) :
        svcs[j].service_name = name /\ svcs[j].health_status = HEALTHY}}

NodesOf(svcs, name) ==
    {svcs[i].service_id : i \in {j \in 1..Len(svcs) : svcs[j].service_name = name}}

\* positions of the healthy nodes of `name`
HealthyPositions(svcs, name) ==
    {j \in 1..Len(svcs) : svcs[j].service_name = name /\ svcs[j].health_status = HEALTHY}

\* the least load among the healthy nodes of `name` (0 when there is none)
MinLoad(svcs, name) ==
    LET H == HealthyPositions(svcs, name)
    IN  IF H = {} THEN 0
        ELSE CHOOSE l \in {svcs[j].load : j \in H} : \A j \in H : l <= svcs[j].load

\* the node registered first among the healthy nodes of `name` of least load
\* (NULL when there is none): registration links at the head, lines 112-113,
\* so the node registered first is the one furthest from the head
EarliestMin(svcs, name) ==
    LET M == {j \in HealthyPositions(svcs, name) : svcs[j].load = MinLoad(svcs, name)}
    IN  IF M = {} THEN NULL
        ELSE svcs[CHOOSE j \in M : \A k \in M : k <= j].service_id

\* what the caller of select_service_instance holds: a copy of the node's fields
Returned(svcs, sel) ==
    IF sel \in 1..Len(svcs) THEN svcs[sel]
    ELSE [service_id |-> sel, service_name |-> "", host |-> "", port |-> 0,
          health_status |-> UNHEALTHY, load |-> 0]

\* the fields of a returned node that tell which node it is and whether it may
\* receive traffic
Seen(r) ==
    [service_id |-> r.service_id, service_name |-> r.service_name,
     health_status |-> r.health_status]

RetId(r) ==
    r.service_id

\* generate_service_id(), mutated: the same identifier every time
generate_service_id_Fixed(n) ==
    1

\* generate_service_id(): the n-th identifier generated, a fresh one each time
generate_service_id(n) ==
    n

\* line 117: what eghact_register_service returns
RegisterReturn == 0

\* eghact_register_service(orch, name, host, port)
eghact_register_service(name, host, port) ==
    /\ reg_lock = "none"
    /\ services' = <<NewNode(generate_service_id(next_id), name, host, port)>> \o services
    /\ num_services' = num_services + 1
    /\ next_id' = next_id + 1
    /\ rr_hist' = [rr_hist EXCEPT ![name] = <<>>]
    /\ reg_log' = Append(reg_log, [name |-> name, host |-> host, port |-> port,
                                   ret |-> RegisterReturn])
    /\ UNCHANGED <<reg_lock, strategy, current_index, hc_pc, hc_cur>>
    /\ UNCHANGED <<n_sel, last_discover, rets_unregistered, rets_nohealthy>>
    /\ UNCHANGED <<dereg_asked, send_rets, last_probe, stop_asked, peers_up>>
    /\ UNCHANGED <<qVars, qHist, cbVars, cbHist>>

\* lines 127 and 177, mutated: the critical section is entered without the lock
select_service_instance_NoLock(name, sel) ==
    LET inst == CollectInstances(services, name, 1)
    IN  /\ sel \in SelectChoices(services, inst, strategy, current_index)
        /\ services' = BumpLoad(services, sel)
        /\ current_index' = IndexAfter(inst, strategy, current_index)
        /\ UNCHANGED <<num_services, reg_lock, strategy, next_id, hc_pc, hc_cur>>
        /\ UNCHANGED <<cbVars, cbHist, obsHist>>

\* select_service_instance(lb, service_name), the whole critical section;
\* sel is the position of `selected` in the list (NULL: none)
select_service_instance(name, sel) ==
    LET inst == CollectInstances(services, name, 1)
    IN  /\ reg_lock = "none"
        /\ sel \in SelectChoices(services, inst, strategy, current_index)
        /\ services' = BumpLoad(services, sel)
        /\ current_index' = IndexAfter(inst, strategy, current_index)
        /\ UNCHANGED <<num_services, reg_lock, strategy, next_id, hc_pc, hc_cur>>
        /\ UNCHANGED <<cbVars, cbHist, obsHist>>

\* eghact_discover_service(orch, service_name), called by client code
eghact_discover_service(name) ==
    /\ n_sel < MaxSelections
    /\ \E sel \in (0..Len(services)) \cup {GARBAGE} :
          /\ select_service_instance(name, sel)
          /\ n_sel' = IF sel = NULL THEN n_sel ELSE n_sel + 1
          /\ last_discover' = [name |-> name, ret |-> Seen(Returned(services, sel)),
                                n_healthy |-> Cardinality(HealthySet(services, name)),
                                n_known |-> Cardinality(NodesOf(services, name)),
                                load |-> Returned(services, sel).load,
                                min_load |-> MinLoad(services, name),
                                earliest_min |-> EarliestMin(services, name),
                                loads_changed |-> BumpLoad(services, sel) # services,
                                index_changed |->
                                    IndexAfter(CollectInstances(services, name, 1),
                                               strategy, current_index) # current_index,
                                index |->
                                    RoundRobinIndex(CollectInstances(services, name, 1),
                                                    strategy, current_index)]
          /\ rets_unregistered' =
                IF Registered(services, name) THEN rets_unregistered
                ELSE rets_unregistered \cup {RetId(Returned(services, sel))}
          /\ rets_nohealthy' =
                IF Registered(services, name) /\ HealthySet(services, name) = {}
                THEN rets_nohealthy \cup {RetId(Returned(services, sel))}
                ELSE rets_nohealthy
          /\ rr_hist' = IF sel = NULL THEN rr_hist
                        ELSE [rr_hist EXCEPT ![name] =
                                 Append(@, RetId(Returned(services, sel)))]
    /\ UNCHANGED <<qVars, qHist>>

\* No function of the source unlinks a node: registry->services is written
\* by eghact_register_service alone (lines 112-113). A caller who wants the
\* node `id` deregistered has nothing to call, and the registry stays as it is.
deregister(id) ==
    /\ id \notin dereg_asked
    /\ dereg_asked' = dereg_asked \cup {id}
    /\ UNCHANGED <<reg_log, send_rets, last_probe, stop_asked, peers_up>>
    /\ UNCHANGED <<regVars, regHist, qVars, qHist, cbVars, cbHist>>

\* No function of the source stops the orchestrator: the two workers are
\* while (1) loops that test no flag (lines 211 and 257), the threads are
\* never joined and nothing is freed. A caller who wants the orchestrator
\* shut down has nothing to call; both workers go on as before.
shutdown ==
    /\ ~stop_asked
    /\ stop_asked' = TRUE
    /\ UNCHANGED <<reg_log, dereg_asked, send_rets, last_probe, peers_up>>
    /\ UNCHANGED <<regVars, regHist, qVars, qHist, cbVars, cbHist>>

\* ------------------------------------------------------- the health checker

\* health_check_worker, lines 212-213: take the lock, start at the list head
HC_Lock ==
    /\ hc_pc = "idle"
    /\ reg_lock = "none"
    /\ reg_lock' = "hc"
    /\ hc_pc' = "probing"
    /\ hc_cur' = IF Len(services) > 0 THEN 1 ELSE NULL
    /\ UNCHANGED <<services, num_services, strategy, current_index, next_id>>
    /\ UNCHANGED regHist
    /\ UNCHANGED <<qVars, qHist, cbVars, cbHist, obsHist>>

\* the bytes a peer may send and the stack may hold; "NUL" is the zero byte
Bytes == {"O", "K", "NUL"}

\* strcmp(response, "OK") looks at response[0..2] at most
StrcmpReach == 3

RECURSIVE SeqsUpTo(_, _)
SeqsUpTo(S, n) ==
    IF n = 0 THEN {<<>>}
    ELSE LET shorter == SeqsUpTo(S, n - 1)
         IN  shorter \cup {Append(q, b) : q \in {r \in shorter : Len(r) = n - 1}, b \in S}

\* what the peer sends before the receive timeout: <<>> when it sends nothing
\* or closes; only the first bytes, those strcmp can reach, are kept
Responses == SeqsUpTo(Bytes, StrcmpReach)

\* line 232: char response[32] is not initialised; the first bytes of what
\* the stack holds there
StackContents == {q \in Responses : Len(q) = StrcmpReach}

\* line 233: recv stores the bytes received at the start of the buffer and
\* leaves the rest as it was
Recv(resp, stack) ==
    resp \o SubSeq(stack, Len(resp) + 1, StrcmpReach)

\* line 234: strcmp(response, "OK") == 0
StrcmpOK(buf) ==
    buf[1] = "O" /\ buf[2] = "K" /\ buf[3] = "NUL"

\* lines 229-240: the status a probe leaves, from whether connect succeeded,
\* the bytes the peer sent and what the buffer held before
ProbeStatus(connected, resp, stack) ==
    IF connected
    THEN IF Len(resp) > 0
         THEN (IF StrcmpOK(Recv(resp, stack)) THEN HEALTHY ELSE UNHEALTHY)
         ELSE UNHEALTHY
    ELSE UNHEALTHY

NoProbe ==
    [probed |-> FALSE, connected |-> FALSE, resp |-> <<>>, status |-> UNHEALTHY]

\* lines 215-244, mutated: a node found UNHEALTHY has its load cleared
HC_Probe_ResetsLoad(connected, resp, stack) ==
    /\ hc_pc = "probing"
    /\ hc_cur # NULL
    /\ LET st == ProbeStatus(connected, resp, stack)
           nm == services[hc_cur].service_name
       IN  /\ services' = [services EXCEPT ![hc_cur].health_status = st,
                                           ![hc_cur].load = IF st = UNHEALTHY THEN 0 ELSE @]
           /\ rr_hist' = IF services[hc_cur].health_status = st THEN rr_hist
                         ELSE [rr_hist EXCEPT ![nm] = <<>>]
    /\ hc_cur' = IF hc_cur < Len(services) THEN hc_cur + 1 ELSE NULL
    /\ UNCHANGED <<num_services, reg_lock, strategy, current_index, next_id, hc_pc>>
    /\ UNCHANGED <<n_sel, last_discover, rets_unregistered, rets_nohealthy>>
    /\ UNCHANGED <<reg_log, dereg_asked, send_rets, stop_asked, peers_up>>
    /\ UNCHANGED <<qVars, qHist, cbVars, cbHist>>

\* lines 215-244: one iteration of the inner loop, the lock held throughout
HC_Probe(connected, resp, stack) ==
    /\ hc_pc = "probing"
    /\ hc_cur # NULL
    /\ LET st == ProbeStatus(connected, resp, stack)
           nm == services[hc_cur].service_name
       IN  /\ services' = [services EXCEPT ![hc_cur].health_status = st]
           /\ rr_hist' = IF services[hc_cur].health_status = st THEN rr_hist
                         ELSE [rr_hist EXCEPT ![nm] = <<>>]
    /\ hc_cur' = IF hc_cur < Len(services) THEN hc_cur + 1 ELSE NULL
    /\ UNCHANGED <<num_services, reg_lock, strategy, current_index, next_id, hc_pc>>
    /\ UNCHANGED <<n_sel, last_discover, rets_unregistered, rets_nohealthy>>
    /\ UNCHANGED <<reg_log, dereg_asked, send_rets, stop_asked, peers_up>>
    /\ UNCHANGED <<qVars, qHist, cbVars, cbHist>>

\* lines 246-247: release the lock and sleep
HC_Unlock ==
    /\ hc_pc = "probing"
    /\ hc_cur = NULL
    /\ reg_lock' = "none"
    /\ hc_pc' = "idle"
    /\ UNCHANGED <<services, num_services, strategy, current_index, next_id, hc_cur>>
    /\ UNCHANGED regHist
    /\ UNCHANGED <<qVars, qHist, cbVars, cbHist, obsHist>>

\* ----------------------------------------- the message queue and dispatcher

\* eghact_send_message, lines 185-190: the message as filled in
NewMessage(from, to, payload) ==
    [from_service |-> from, to_service |-> to, payload |-> payload,
     priority |-> DefaultPriority, next |-> NULL]

\* lines 194-199, mutated: the message is linked in front of the head
Enqueue_AtHead(msgs, head, tail, m, msg) ==
    [messages |-> (m :> [msg EXCEPT !.next = head]) @@ msgs,
     head |-> m,
     tail |-> IF tail # NULL THEN tail ELSE m]

\* lines 194-199, mutated: head and tail are set to the message also when
\* the queue is not empty
Enqueue_Relinks(msgs, head, tail, m, msg) ==
    [messages |-> (m :> msg) @@ msgs, head |-> m, tail |-> m]

\* lines 194-199, mutated: line 196 is missing, the message is linked behind
\* the tail and tail stays where it was
Enqueue_KeepsTail(msgs, head, tail, m, msg) ==
    IF tail # NULL
    THEN [messages |-> (m :> msg) @@ [msgs EXCEPT ![tail].next = m],
          head |-> head, tail |-> tail]
    ELSE [messages |-> (m :> msg) @@ msgs, head |-> m, tail |-> m]

\* lines 194-199: link message m behind the tail
Enqueue(msgs, head, tail, m, msg) ==
    IF tail # NULL
    THEN [messages |-> (m :> msg) @@ [msgs EXCEPT ![tail].next = m],
          head |-> head, tail |-> m]
    ELSE [messages |-> (m :> msg) @@ msgs, head |-> m, tail |-> m]

\* lines 265-269, mutated: tail is left as it is when the queue empties
Dequeue_KeepsTail(msgs, head, tail) ==
    [msg |-> head, head |-> msgs[head].next, tail |-> tail]

\* lines 265-269: unlink the head
Dequeue(msgs, head, tail) ==
    LET h == msgs[head].next
    IN  [msg |-> head, head |-> h, tail |-> IF h = NULL THEN NULL ELSE tail]

\* line 204: what eghact_send_message returns
SendReturn == 0

\* eghact_send_message(orch, from, to, payload); pthread_cond_signal wakes
\* the dispatcher when it waits
eghact_send_message(from, to, payload) ==
    /\ next_msg <= MaxMsgs
    /\ q_lock = "none"
    /\ LET q == Enqueue(messages, mq_head, mq_tail, next_msg, NewMessage(from, to, payload))
       IN  /\ messages' = q.messages
           /\ mq_head' = q.head
           /\ mq_tail' = q.tail
    /\ next_msg' = next_msg + 1
    /\ d_pc' = IF d_pc = "waiting" THEN "woken" ELSE d_pc
    /\ send_rets' = send_rets \cup {SendReturn}
    /\ UNCHANGED <<q_lock, d_msg, d_target>>
    /\ UNCHANGED <<reg_log, dereg_asked, last_probe, stop_asked, peers_up>>
    /\ UNCHANGED <<qHist, regVars, regHist, cbVars, cbHist>>

\* lines 260-263, mutated: an if instead of the while, the queue is not
\* tested again after pthread_cond_wait returns
D_Lock_NoRecheck ==
    /\ d_pc \in {"lock", "woken"}
    /\ q_lock = "none"
    /\ q_lock' = "dispatcher"
    /\ d_pc' = IF d_pc = "woken" THEN "pop" ELSE "check"
    /\ UNCHANGED <<messages, mq_head, mq_tail, next_msg, d_msg, d_target>>
    /\ UNCHANGED <<qHist, regVars, regHist, cbVars, cbHist, obsHist>>

\* message_dispatcher_worker, line 258: pthread_mutex_lock; also the lock
\* taken again when pthread_cond_wait returns
D_Lock ==
    /\ d_pc \in {"lock", "woken"}
    /\ q_lock = "none"
    /\ q_lock' = "dispatcher"
    /\ d_pc' = "check"
    /\ UNCHANGED <<messages, mq_head, mq_tail, next_msg, d_msg, d_target>>
    /\ UNCHANGED <<qHist, regVars, regHist, cbVars, cbHist, obsHist>>

\* lines 260-263: the test of the wait loop; pthread_cond_wait releases the lock
D_Check ==
    /\ d_pc = "check"
    /\ IF mq_head = NULL
       THEN /\ d_pc' = "waiting"
            /\ q_lock' = "none"
       ELSE /\ d_pc' = "pop"
            /\ UNCHANGED q_lock
    /\ UNCHANGED <<messages, mq_head, mq_tail, next_msg, d_msg, d_target>>
    /\ UNCHANGED <<qHist, regVars, regHist, cbVars, cbHist, obsHist>>

\* pthread_cond_wait may return without a signal
D_SpuriousWakeup ==
    /\ d_pc = "waiting"
    /\ d_pc' = "woken"
    /\ UNCHANGED <<messages, mq_head, mq_tail, q_lock, next_msg, d_msg, d_target>>
    /\ UNCHANGED <<qHist, regVars, regHist, cbVars, cbHist, obsHist>>

\* lines 265-271, mutated: the unlock of line 271 is missing
D_Pop_KeepsLock ==
    /\ d_pc = "pop"
    /\ LET q == Dequeue(messages, mq_head, mq_tail)
       IN  /\ d_msg' = q.msg
           /\ mq_head' = q.head
           /\ mq_tail' = q.tail
           /\ deq_order' = Append(deq_order, q.msg)
    /\ q_lock' = q_lock
    /\ d_pc' = "discover"
    /\ UNCHANGED <<messages, next_msg, d_target, dispatched>>
    /\ UNCHANGED <<regVars, regHist, cbVars, cbHist, obsHist>>

\* lines 265-271: pop the head and release the lock
D_Pop ==
    /\ d_pc = "pop"
    /\ LET q == Dequeue(messages, mq_head, mq_tail)
       IN  /\ d_msg' = q.msg
           /\ mq_head' = q.head
           /\ mq_tail' = q.tail
           /\ deq_order' = Append(deq_order, q.msg)
    /\ q_lock' = "none"
    /\ d_pc' = "discover"
    /\ UNCHANGED <<messages, next_msg, d_target, dispatched>>
    /\ UNCHANGED <<regVars, regHist, cbVars, cbHist, obsHist>>

\* lines 275-277, mutated: the loop is left when no target is found
AfterDiscover_Halt(sel) ==
    IF sel # NULL THEN "deliver" ELSE "halted"

\* lines 275-277: deliver_message is called only when a target was found
AfterDiscover(sel) ==
    IF sel # NULL THEN "deliver" ELSE "free"

\* lines 274-275: target = eghact_discover_service(orch, msg->to_service)
D_Discover ==
    /\ d_pc = "discover"
    /\ \E sel \in (0..Len(services)) \cup {GARBAGE} :
          /\ select_service_instance(messages[d_msg].to_service, sel)
          /\ d_target' = Returned(services, sel)
          /\ d_pc' = AfterDiscover(sel)
          /\ dispatched' = IF sel # NULL THEN dispatched
                           ELSE Append(dispatched, [msg |-> d_msg, outcome |-> "notarget"])
    /\ UNCHANGED <<messages, mq_head, mq_tail, q_lock, next_msg, d_msg, deq_order>>
    /\ UNCHANGED regHist

\* deliver_message(target, msg): the transport; it returns, having delivered or not
deliver_message(target, msg, ok) ==
    IF ok THEN "delivered" ELSE "failed"

\* line 276, mutated: the delivery is tried again when it fails
D_Deliver_Retry(ok) ==
    /\ d_pc = "deliver"
    /\ dispatched' = Append(dispatched,
           [msg |-> d_msg, outcome |-> deliver_message(d_target, d_msg, ok)])
    /\ d_pc' = IF ok THEN "free" ELSE "deliver"
    /\ UNCHANGED <<messages, mq_head, mq_tail, q_lock, next_msg, d_msg, d_target, deq_order>>
    /\ UNCHANGED <<regVars, regHist, cbVars, cbHist, obsHist>>

\* line 276: deliver_message(target, msg); what it returns is not looked at
D_Deliver(ok) ==
    /\ d_pc = "deliver"
    /\ dispatched' = Append(dispatched,
           [msg |-> d_msg, outcome |-> deliver_message(d_target, d_msg, ok)])
    /\ d_pc' = "free"
    /\ UNCHANGED <<messages, mq_head, mq_tail, q_lock, next_msg, d_msg, d_target, deq_order>>
    /\ UNCHANGED <<regVars, regHist, cbVars, cbHist, obsHist>>

\* lines 280-284: free the message and loop
D_Free ==
    /\ d_pc = "free"
    /\ messages' = [m \in DOMAIN messages \ {d_msg} |-> messages[m]]
    /\ d_msg' = NULL
    /\ d_target' = Returned(<<>>, NULL)
    /\ d_pc' = "lock"
    /\ UNCHANGED <<mq_head, mq_tail, q_lock, next_msg>>
    /\ UNCHANGED <<qHist, regVars, regHist, cbVars, cbHist, obsHist>>

\* ------------------------------------------------------ the circuit breaker

\* create_circuit_breaker(threshold, timeout)
create_circuit_breaker(threshold, timeout) ==
    [failure_count |-> 0, failure_threshold |-> threshold,
     timeout_duration |-> timeout, last_failure_time |-> 0, state |-> "CLOSED"]

\* line 310, mutated: >= lets a call through when exactly timeout_duration has elapsed
TimeoutElapsed_AtEqual(b, t) ==
    t - b.last_failure_time >= b.timeout_duration

\* line 310: time(NULL) - cb->last_failure_time > cb->timeout_duration
TimeoutElapsed(b, t) ==
    t - b.last_failure_time > b.timeout_duration

\* lines 309-315: TRUE when the call returns -1 at once
Rejects(b, t) ==
    b.state = "OPEN" /\ ~TimeoutElapsed(b, t)

\* lines 309-312: the breaker after the check of a call that goes on
AfterCheck(b, t) ==
    IF b.state = "OPEN" /\ TimeoutElapsed(b, t)
    THEN [b EXCEPT !.state = "HALF_OPEN"]
    ELSE b

\* lines 319-324, mutated: the state is closed again but failure_count is kept
OnSuccess_KeepCount(b) ==
    IF b.state = "HALF_OPEN" THEN [b EXCEPT !.state = "CLOSED"] ELSE b

\* lines 319-324, mutated: every success zeroes failure_count
OnSuccess_ResetsAlways(b) ==
    [b EXCEPT !.state = IF @ = "HALF_OPEN" THEN "CLOSED" ELSE @, !.failure_count = 0]

\* lines 319-324: the success branch
OnSuccess(b) ==
    IF b.state = "HALF_OPEN"
    THEN [b EXCEPT !.state = "CLOSED", !.failure_count = 0]
    ELSE b

\* lines 327-332, mutated: the breaker opens only above the threshold
OnFailure_OpensLate(b, count, t) ==
    LET b1 == [b EXCEPT !.failure_count = count, !.last_failure_time = t]
    IN  IF b1.failure_count > b1.failure_threshold
        THEN [b1 EXCEPT !.state = "OPEN"] ELSE b1

\* lines 327-332, mutated: last_failure_time is not recorded
OnFailure_NoTime(b, count, t) ==
    LET b1 == [b EXCEPT !.failure_count = count]
    IN  IF b1.failure_count >= b1.failure_threshold
        THEN [b1 EXCEPT !.state = "OPEN"] ELSE b1

\* lines 327-332, mutated: failure_count is zeroed when the breaker opens
OnFailure_ResetsOnOpen(b, count, t) ==
    LET b1 == [b EXCEPT !.failure_count = count, !.last_failure_time = t]
    IN  IF b1.failure_count >= b1.failure_threshold
        THEN [b1 EXCEPT !.state = "OPEN", !.failure_count = 0] ELSE b1

\* lines 327-332, mutated: the breaker opens from CLOSED only, a failing
\* trial call leaves it HALF_OPEN
OnFailure_HalfOpenStays(b, count, t) ==
    LET b1 == [b EXCEPT !.failure_count = count, !.last_failure_time = t]
    IN  IF b1.failure_count >= b1.failure_threshold /\ b.state = "CLOSED"
        THEN [b1 EXCEPT !.state = "OPEN"] ELSE b1

\* lines 327-332: the failure branch, `count` being the value failure_count++ stores
OnFailure(b, count, t) ==
    LET b1 == [b EXCEPT !.failure_count = count, !.last_failure_time = t]
    IN  IF b1.failure_count >= b1.failure_threshold
        THEN [b1 EXCEPT !.state = "OPEN"] ELSE b1

\* circuit_breaker_call, lines 309-315: the check on entry
CB_Check(t) ==
    /\ cb_pc[t] = "idle"
    /\ Len(cb_log) + Cardinality({u \in CBThreads : cb_pc[u] # "idle"}) < MaxCalls
    /\ cb_entry' = [cb_entry EXCEPT ![t] = [cb |-> cb, now |-> now]]
    /\ cb_invoked' = [cb_invoked EXCEPT ![t] = FALSE]
    /\ IF Rejects(cb, now)
       THEN /\ cb_ret' = [cb_ret EXCEPT ![t] = -1]
            /\ cb_log' = Append(cb_log, "rejected")
            /\ UNCHANGED <<cb, cb_pc>>
       ELSE /\ cb' = AfterCheck(cb, now)
            /\ cb_pc' = [cb_pc EXCEPT ![t] = "func"]
            /\ UNCHANGED <<cb_ret, cb_log>>
    /\ UNCHANGED <<now, cb_result, cb_tmp, cb_tfunc, cb_fails>>
    /\ UNCHANGED <<regVars, regHist, qVars, qHist, obsHist>>

\* line 317: result = func(arg)
CB_Func(t, r) ==
    /\ cb_pc[t] = "func"
    /\ cb_result' = [cb_result EXCEPT ![t] = r]
    /\ cb_invoked' = [cb_invoked EXCEPT ![t] = TRUE]
    /\ cb_tfunc' = [cb_tfunc EXCEPT ![t] = now]
    /\ cb_pc' = [cb_pc EXCEPT ![t] = IF r = 0 THEN "success" ELSE "failure"]
    /\ UNCHANGED <<cb, now, cb_tmp, cb_ret, cb_entry, cb_log, cb_fails>>
    /\ UNCHANGED <<regVars, regHist, qVars, qHist, obsHist>>

\* lines 319-324 and 335: the success branch, and the return
CB_Success(t) ==
    /\ cb_pc[t] = "success"
    /\ cb' = OnSuccess(cb)
    /\ cb_fails' = IF cb.state = "HALF_OPEN" THEN 0 ELSE cb_fails
    /\ cb_ret' = [cb_ret EXCEPT ![t] = cb_result[t]]
    /\ cb_log' = Append(cb_log, "ok")
    /\ cb_pc' = [cb_pc EXCEPT ![t] = "idle"]
    /\ UNCHANGED <<now, cb_result, cb_tmp, cb_entry, cb_invoked, cb_tfunc>>
    /\ UNCHANGED <<regVars, regHist, qVars, qHist, obsHist>>

\* line 327: the read of cb->failure_count++
CB_FailRead(t) ==
    /\ cb_pc[t] = "failure"
    /\ cb_tmp' = [cb_tmp EXCEPT ![t] = cb.failure_count]
    /\ cb_pc' = [cb_pc EXCEPT ![t] = "store"]
    /\ UNCHANGED <<cb, now, cb_result, cb_ret>>
    /\ UNCHANGED cbHist
    /\ UNCHANGED <<regVars, regHist, qVars, qHist, obsHist>>

\* lines 327-335: the store of failure_count++, the rest of the failure
\* branch, and the return
CB_FailStore(t) ==
    /\ cb_pc[t] = "store"
    /\ cb' = OnFailure(cb, cb_tmp[t] + 1, now)
    /\ cb_fails' = cb_fails + 1
    /\ cb_ret' = [cb_ret EXCEPT ![t] = cb_result[t]]
    /\ cb_log' = Append(cb_log, "fail")
    /\ cb_pc' = [cb_pc EXCEPT ![t] = "idle"]
    /\ UNCHANGED <<now, cb_result, cb_tmp, cb_entry, cb_invoked, cb_tfunc>>
    /\ UNCHANGED <<regVars, regHist, qVars, qHist, obsHist>>

\* the clock read by time(NULL) advances by a second
Tick ==
    /\ now < MaxTime
    /\ now' = now + 1
    /\ UNCHANGED <<cb, cb_pc, cb_result, cb_tmp, cb_ret>>
    /\ UNCHANGED cbHist
    /\ UNCHANGED <<regVars, regHist, qVars, qHist, obsHist>>

\* ------------------------------------------------------------ specification

\* an orchestrator at rest: the nodes of svcs registered, no call in progress,
\* the queue empty, both workers at the top of their loops, with
\* load_balancer->strategy = strat and load_balancer->current_index = ci
OrchestratorRunning(svcs, strat, ci) ==
    /\ services = svcs
    /\ num_services = Len(svcs)
    /\ reg_lock = "none"
    /\ strategy = strat
    /\ current_index = ci
    /\ next_id = Len(svcs) + 1
    /\ hc_pc = "idle"
    /\ hc_cur = NULL
    /\ n_sel = 0
    /\ last_discover = [name |-> "", ret |-> Seen(Returned(<<>>, NULL)),
                        n_healthy |-> 0, n_known |-> 0, load |-> 0, min_load |-> 0,
                        earliest_min |-> NULL, loads_changed |-> FALSE,
                        index_changed |-> FALSE, index |-> 0]
    /\ rets_unregistered = {}
    /\ rets_nohealthy = {}
    /\ rr_hist = [n \in ServiceNames |-> <<>>]
    /\ messages = <<>>
    /\ mq_head = NULL
    /\ mq_tail = NULL
    /\ q_lock = "none"
    /\ next_msg = 1
    /\ d_pc = "lock"
    /\ d_msg = NULL
    /\ d_target = Returned(<<>>, NULL)
    /\ deq_order = <<>>
    /\ dispatched = <<>>
    /\ reg_log = [k \in 1..Len(svcs) |->
                     [name |-> svcs[Len(svcs) - k + 1].service_name,
                      host |-> svcs[Len(svcs) - k + 1].host,
                      port |-> svcs[Len(svcs) - k + 1].port,
                      ret |-> RegisterReturn]]
    /\ dereg_asked = {}
    /\ stop_asked = FALSE
    /\ send_rets = {}
    /\ last_probe = NoProbe
    /\ peers_up = FALSE

\* the state eghact_orchestrator_init leaves, with load_balancer->strategy = strat
\* and load_balancer->current_index = ci
OrchestratorAt(strat, ci) ==
    OrchestratorRunning(<<>>, strat, ci)

\* line 91: current_index starts at 0
OrchestratorWith(strat) ==
    OrchestratorAt(strat, 0)

\* eghact_orchestrator_init, line 90: the strategy is LB_ROUND_ROBIN
eghact_orchestrator_init ==
    OrchestratorWith("LB_ROUND_ROBIN")

\* a breaker created by create_circuit_breaker(threshold, timeout), no call yet
CBInit(threshold, timeout) ==
    /\ cb = create_circuit_breaker(threshold, timeout)
    /\ now = 1
    /\ cb_pc = [t \in CBThreads |-> "idle"]
    /\ cb_result = [t \in CBThreads |-> 0]
    /\ cb_tmp = [t \in CBThreads |-> 0]
    /\ cb_ret = [t \in CBThreads |-> 0]
    /\ cb_entry = [t \in CBThreads |->
                     [cb |-> create_circuit_breaker(threshold, timeout), now |-> 1]]
    /\ cb_invoked = [t \in CBThreads |-> FALSE]
    /\ cb_tfunc = [t \in CBThreads |-> 1]
    /\ cb_log = <<>>
    /\ cb_fails = 0

\* the peers met where the wire contract is not what is looked at: a peer
\* that is down, one that sends nothing, one that answers OK; the stack
\* holds zero bytes or what an earlier answer left
QuietResponses == {<<>>, <<"O", "K">>}
QuietStacks == {<<"NUL", "NUL", "NUL">>, <<"O", "K", "K">>}

health_check_worker ==
    \/ HC_Lock
    \/ \E connected \in BOOLEAN, resp \in QuietResponses, stack \in QuietStacks :
          /\ HC_Probe(connected, resp, stack)
          /\ UNCHANGED last_probe
    \/ HC_Unlock

\* the health checker with every probe's circumstances recorded
health_check_worker_observed ==
    \/ HC_Lock
    \/ \E connected \in BOOLEAN, resp \in Responses, stack \in StackContents :
          /\ HC_Probe(connected, resp, stack)
          /\ last_probe' = [probed |-> TRUE, connected |-> connected, resp |-> resp,
                            status |-> ProbeStatus(connected, resp, stack)]
    \/ HC_Unlock

\* The registry: client calls of register and discover, and the health checker.
Init ==
    /\ eghact_orchestrator_init
    /\ CBInit(1, 0)

ClientRegister ==
    /\ Len(services) < MaxNodes
    /\ \E name \in ServiceNames, host \in Hosts, port \in Ports : eghact_register_service(name, host, port)

Next ==
    \/ ClientRegister
    \/ \E name \in ServiceNames : eghact_discover_service(name)
    \/ health_check_worker

Spec == Init /\ [][Next]_vars

\* The same with room for two services of which one has two instances.
RoundRobinRegister ==
    /\ Len(services) < MaxRoundRobinNodes
    /\ \E name \in ServiceNames, host \in Hosts, port \in Ports : eghact_register_service(name, host, port)

NextRoundRobin ==
    \/ RoundRobinRegister
    \/ \E name \in ServiceNames : eghact_discover_service(name)
    \/ health_check_worker

SpecRoundRobin == Init /\ [][NextRoundRobin]_vars

\* A deployment whose instances are registered before the first selection is
\* asked for; selections and health-check rounds then interleave freely.
StartupRegister ==
    /\ last_discover.name = ""
    /\ RoundRobinRegister

NextCounter ==
    \/ StartupRegister
    \/ \E name \in ServiceNames : eghact_discover_service(name)
    \/ health_check_worker

SpecCounter == Init /\ [][NextCounter]_vars

\* An orchestrator that has served INT_MAX selections: two instances of one
\* service have shared them in turn and current_index has reached INT_MAX.
LongRunning ==
    <<[NewNode(generate_service_id(2), "payments", "10.0.0.1", 8080)
          EXCEPT !.load = (INT_MAX - 1) \div 2],
      [NewNode(generate_service_id(1), "payments", "10.0.0.1", 8080)
          EXCEPT !.load = (INT_MAX - 1) \div 2 + 1]>>

InitWrap ==
    /\ OrchestratorRunning(LongRunning, "LB_ROUND_ROBIN", INT_MAX)
    /\ CBInit(1, 0)

SpecWrap == InitWrap /\ [][NextRoundRobin]_vars

\* The registry with load_balancer->strategy set to LB_LEAST_CONNECTIONS. No
\* function of the source writes the field after line 90; the embedder assigns
\* it before the first call.
InitLeastConn ==
    /\ OrchestratorWith("LB_LEAST_CONNECTIONS")
    /\ CBInit(1, 0)

SpecLeastConn == InitLeastConn /\ [][Next]_vars

\* The registry with callers who ask for the deregistration of nodes.
ClientDeregister ==
    \E i \in 1..Len(services) : deregister(services[i].service_id)

NextRegistry ==
    \/ ClientRegister
    \/ ClientDeregister
    \/ \E name \in ServiceNames : eghact_discover_service(name)
    \/ health_check_worker

SpecRegistry == Init /\ [][NextRegistry]_vars

\* The health checker probing peers of every kind.
ProbeRegister ==
    /\ Len(services) < MaxProbeNodes
    /\ \E name \in ServiceNames, host \in Hosts, port \in Ports : eghact_register_service(name, host, port)

NextProbe ==
    \/ ProbeRegister
    \/ health_check_worker_observed

SpecProbe == Init /\ [][NextProbe]_vars

\* The orchestrator's messaging: client calls of register and send_message,
\* the dispatcher and the health checker.
message_dispatcher_worker ==
    \/ D_Lock
    \/ D_Check
    \/ D_Pop
    \/ D_Discover
    \/ \E ok \in BOOLEAN : D_Deliver(ok)
    \/ D_Free

\* a registration made while messages flow
QRegister ==
    /\ Len(services) < MaxQueueNodes
    /\ \E name \in ServiceNames, host \in Hosts, port \in Ports : eghact_register_service(name, host, port)

NextQueue ==
    \/ QRegister
    \/ \E from \in Senders, to \in ServiceNames, payload \in Payloads : eghact_send_message(from, to, payload)
    \/ message_dispatcher_worker
    \/ D_SpuriousWakeup
    \/ health_check_worker

SpecQueue == Init /\ [][NextQueue]_vars

\* The same under fair scheduling: a runnable dispatcher step is eventually
\* taken, the registry lock included since the health checker sleeps with the
\* lock free between two rounds; every probe returns (receive timeout).
SpecQueueFair ==
    /\ SpecQueue
    /\ SF_vars(message_dispatcher_worker)
    /\ WF_vars(health_check_worker)

\* Messaging over a registry of up to two nodes: registrations are made while
\* earlier nodes carry load or are UNHEALTHY.
DispatchRegister ==
    /\ Len(services) < MaxDispatchNodes
    /\ \E name \in ServiceNames, host \in Hosts, port \in Ports : eghact_register_service(name, host, port)

ClientSend ==
    \E from \in Senders, to \in ServiceNames, payload \in Payloads : eghact_send_message(from, to, payload)

DispatchSend ==
    /\ next_msg <= MaxDispatchMsgs
    /\ ClientSend

NextDispatch ==
    \/ DispatchRegister
    \/ DispatchSend
    \/ message_dispatcher_worker
    \/ D_SpuriousWakeup
    \/ health_check_worker

SpecDispatch == Init /\ [][NextDispatch]_vars

\* The same with a caller who asks for the shutdown of the orchestrator.
NextShutdown ==
    \/ NextQueue
    \/ shutdown

SpecShutdownFair ==
    /\ Init
    /\ [][NextShutdown]_vars
    /\ SF_vars(message_dispatcher_worker)
    /\ WF_vars(health_check_worker)

\* The registry with peers that come up: from then on every connect succeeds
\* and every peer answers the two bytes OK within the timeout; what the
\* receive buffer held before is not the peers' doing.
PeersRecover ==
    /\ ~peers_up
    /\ peers_up' = TRUE
    /\ UNCHANGED <<reg_log, dereg_asked, send_rets, last_probe, stop_asked>>
    /\ UNCHANGED <<regVars, regHist, qVars, qHist, cbVars, cbHist>>

health_check_worker_peers ==
    \/ HC_Lock
    \/ \E connected \in BOOLEAN, resp \in QuietResponses, stack \in StackContents :
          /\ peers_up => (connected /\ resp = <<"O", "K">>)
          /\ HC_Probe(connected, resp, stack)
          /\ UNCHANGED last_probe
    \/ HC_Unlock

NextRecovery ==
    \/ ClientRegister
    \/ \E name \in ServiceNames : eghact_discover_service(name)
    \/ health_check_worker_peers
    \/ PeersRecover

\* Fair scheduling: the health checker sleeps with the lock free between two
\* rounds, callers hold the lock for a bounded time, every probe returns.
SpecRecoveryFair ==
    /\ Init
    /\ [][NextRecovery]_vars
    /\ WF_vars(health_check_worker_peers)

\* The orchestrator with load_balancer->strategy set to LB_WEIGHTED or to
\* LB_IP_HASH before the first call: client calls of register, discover and
\* send_message, the dispatcher and the health checker. The dispatcher's call
\* of deliver_message is not among the steps: it is never reached (C38).
InitUnimplemented ==
    /\ \E strat \in {"LB_WEIGHTED", "LB_IP_HASH"} : OrchestratorWith(strat)
    /\ CBInit(1, 0)

UnimplementedSend ==
    /\ next_msg <= MaxUnimplementedMsgs
    /\ ClientSend

NextUnimplemented ==
    \/ DispatchRegister
    \/ \E name \in ServiceNames : eghact_discover_service(name)
    \/ UnimplementedSend
    \/ D_Lock
    \/ D_Check
    \/ D_Pop
    \/ D_Discover
    \/ D_Free
    \/ health_check_worker

SpecUnimplemented == InitUnimplemented /\ [][NextUnimplemented]_vars

\* One circuit breaker, called by one thread at a time.
InitCB ==
    /\ eghact_orchestrator_init
    /\ \E threshold \in 1..MaxThreshold, timeout \in 0..MaxTimeout : CBInit(threshold, timeout)

circuit_breaker_call(t) ==
    \/ CB_Check(t)
    \/ \E r \in FuncResults : CB_Func(t, r)
    \/ CB_Success(t)
    \/ CB_FailRead(t)
    \/ CB_FailStore(t)

NextCB ==
    \/ circuit_breaker_call(1)
    \/ Tick

SpecCB == InitCB /\ [][NextCB]_vars

\* One circuit breaker, called by the threads of CBThreads concurrently.
NextCBConc ==
    \/ \E t \in CBThreads : circuit_breaker_call(t)
    \/ Tick

SpecCBConc == InitCB /\ [][NextCBConc]_vars

\* ------------------------------------------------------------------ claims

\* C1: every node discover returns is a registered node of the service asked
\* for whose health status was HEALTHY when it was selected; with one of two
\* instances marked UNHEALTHY, only the other one is returned.
C1_DiscoverReturnsHealthy ==
    last_discover.ret.service_id # NULL =>
        /\ last_discover.ret.service_name = last_discover.name
        /\ last_discover.ret.health_status = HEALTHY
        /\ \E i \in 1..Len(services) :
              /\ services[i].service_id = last_discover.ret.service_id
              /\ services[i].service_name = last_discover.name

\* C1 witness: the service had two instances, one of them UNHEALTHY after a
\* probe, and discover returned the other one.
C1_Witness ==
    /\ last_discover.n_known = 2
    /\ last_discover.n_healthy = 1
    /\ last_discover.ret.service_id # NULL

\* C2: the value discover returns for a name that was never registered differs
\* from the value it returns for a registered name with no HEALTHY instance.
C2_TellsNotFoundFromNoHealthy ==
    rets_unregistered \cap rets_nohealthy = {}

\* TRUE when thread t's last call found the breaker OPEN with the timeout not elapsed
EnteredOpenInTime(t) ==
    /\ cb_entry[t].cb.state = "OPEN"
    /\ cb_entry[t].now - cb_entry[t].cb.last_failure_time <= cb_entry[t].cb.timeout_duration

\* TRUE when thread t's last call found the breaker OPEN with more than the timeout elapsed
EnteredOpenExpired(t) ==
    /\ cb_entry[t].cb.state = "OPEN"
    /\ cb_entry[t].now - cb_entry[t].cb.last_failure_time > cb_entry[t].cb.timeout_duration

OnlyFailures(log) ==
    \A i \in 1..Len(log) : log[i] = "fail"

\* C3: from a fresh breaker, after failure_threshold failing calls in a row the
\* state is OPEN, and after fewer of them it is still CLOSED.
C3_OpensAtThreshold ==
    (cb_pc[1] = "idle" /\ OnlyFailures(cb_log)) =>
        /\ Len(cb_log) < cb.failure_threshold => cb.state = "CLOSED"
        /\ Len(cb_log) = cb.failure_threshold => cb.state = "OPEN"

\* C3 witness: three failing calls have opened a breaker of threshold 3.
C3_Witness ==
    /\ cb_pc[1] = "idle"
    /\ cb.failure_threshold = 3
    /\ cb_log = <<"fail", "fail", "fail">>
    /\ cb.state = "OPEN"

\* C4: a call on an OPEN breaker made when at most timeout_duration has elapsed
\* since last_failure_time returns -1 without invoking the wrapped function and
\* leaves state, failure_count and last_failure_time as they were.
C4_FailFast ==
    (cb_pc[1] = "idle" /\ EnteredOpenInTime(1)) =>
        /\ cb_ret[1] = -1
        /\ ~cb_invoked[1]
        /\ cb = cb_entry[1].cb

\* C4 witness: a call was rejected when exactly timeout_duration had elapsed.
C4_Witness ==
    /\ cb_pc[1] = "idle"
    /\ EnteredOpenInTime(1)
    /\ cb.timeout_duration > 0
    /\ cb_entry[1].now - cb_entry[1].cb.last_failure_time = cb.timeout_duration
    /\ cb_log[Len(cb_log)] = "rejected"

\* C5: a call on an OPEN breaker made when more than timeout_duration has
\* elapsed runs the wrapped function with the breaker HALF_OPEN, and when the
\* function succeeds the call returns with the breaker CLOSED and failure_count 0.
C5_Recovery ==
    EnteredOpenExpired(1) =>
        /\ cb_pc[1] = "func" => (cb.state = "HALF_OPEN" /\ ~cb_invoked[1])
        /\ cb_pc[1] = "success" => cb.state = "HALF_OPEN"
        /\ cb_pc[1] = "idle" =>
              /\ cb_invoked[1]
              /\ cb_result[1] = 0 => (cb.state = "CLOSED" /\ cb.failure_count = 0)

\* C5 witness: a trial call succeeded and closed a breaker of threshold 2.
C5_Witness ==
    /\ cb_pc[1] = "idle"
    /\ EnteredOpenExpired(1)
    /\ cb_entry[1].cb.failure_count = 2
    /\ cb_result[1] = 0
    /\ cb.state = "CLOSED"

\* C6: when the wrapped function of a HALF_OPEN trial fails, the call returns
\* with the breaker OPEN and last_failure_time set to the time of that failure,
\* so that a call made before more than timeout_duration has elapsed since then
\* is rejected.
C6_Reopens ==
    (cb_pc[1] = "idle" /\ EnteredOpenExpired(1) /\ cb_result[1] # 0) =>
        /\ cb.state = "OPEN"
        /\ cb_tfunc[1] <= cb.last_failure_time
        /\ cb.last_failure_time <= now
        /\ now - cb_tfunc[1] <= cb.timeout_duration => Rejects(cb, now)

\* C6 witness: a trial call failed and the breaker is OPEN again, a second
\* after the failure and within the timeout.
C6_Witness ==
    /\ cb_pc[1] = "idle"
    /\ EnteredOpenExpired(1)
    /\ cb_result[1] # 0
    /\ cb_log[Len(cb_log)] = "fail"
    /\ cb.state = "OPEN"
    /\ now = cb_tfunc[1] + 1
    /\ cb.timeout_duration = 1

\* C7: concurrent calls are serialized: once all calls have returned,
\* failure_count is the number of failing calls completed since it was last
\* reset (no update is lost).
C7_NoLostUpdate ==
    (\A t \in CBThreads : cb_pc[t] = "idle") => cb.failure_count = cb_fails

IsPrefix(a, b) ==
    /\ Len(a) <= Len(b)
    /\ \A i \in 1..Len(a) : a[i] = b[i]

\* the messages accepted so far, in the order their enqueues completed
EnqueueOrder ==
    [i \in 1..(next_msg - 1) |-> i]

DispatchedMsgs ==
    [i \in 1..Len(dispatched) |-> dispatched[i].msg]

\* C8: the dispatcher pops the messages, and attempts their delivery, in the
\* order in which their enqueues completed.
C8_FifoDispatch ==
    /\ IsPrefix(deq_order, EnqueueOrder)
    /\ IsPrefix(DispatchedMsgs, deq_order)

\* C8 witness: three messages for different destinations went through, the
\* third one enqueued after the first had been processed.
C8_Witness ==
    /\ Len(dispatched) = 3
    /\ deq_order = <<1, 2, 3>>
    /\ \E i, j \in 1..3 : dispatched[i].outcome = "notarget" /\ dispatched[j].outcome = "delivered"

Processed(m) ==
    \E i \in 1..Len(dispatched) : dispatched[i].msg = m

\* C9: under fair scheduling every message accepted by send_message is
\* eventually popped and processed by the dispatcher, whatever became of the
\* messages before it: again and again all the messages accepted so far have
\* been processed (a message accepted stays accepted, one processed stays
\* processed).
C9_DispatcherProgress ==
    []<>(\A m \in 1..MaxMsgs : m < next_msg => Processed(m))

\* C9 witness: a delivery failed, then no target was found, and the message
\* after those was processed all the same.
C9_Witness ==
    /\ Len(dispatched) = 3
    /\ dispatched[1].outcome = "failed"
    /\ dispatched[2].outcome = "notarget"
    /\ dispatched[3].outcome = "delivered"

\* C10: while a service has the same k healthy instances, any k consecutive
\* round-robin selections for it return k different instances.
C10_RoundRobinVisitsEach ==
    \A name \in ServiceNames :
        LET k == Cardinality(HealthySet(services, name))
            h == rr_hist[name]
        IN  (strategy = "LB_ROUND_ROBIN" /\ k >= 1 /\ Len(h) >= k) =>
                Cardinality({h[i] : i \in (Len(h) - k + 1)..Len(h)}) = k

\* C11: under the least-connections strategy the node selected is HEALTHY and
\* its load, read before the increment, is the least among the healthy
\* instances of the service: no other healthy instance had a smaller load.
C11_LeastConnectionsPicksMinimum ==
    (strategy = "LB_LEAST_CONNECTIONS" /\ last_discover.ret.service_id # NULL) =>
        /\ last_discover.ret.health_status = HEALTHY
        /\ last_discover.ret.service_name = last_discover.name
        /\ last_discover.load = last_discover.min_load

\* C11 witness: of two healthy instances the one selected had load 1, the
\* other one having been selected before as well.
C11_Witness ==
    /\ strategy = "LB_LEAST_CONNECTIONS"
    /\ last_discover.ret.service_id # NULL
    /\ last_discover.n_healthy = 2
    /\ last_discover.load = 1
    /\ \E i, j \in 1..Len(services) :
          /\ i # j
          /\ services[i].service_name = last_discover.name
          /\ services[j].service_name = last_discover.name
          /\ services[i].load = 2
          /\ services[j].load = 1

\* C12: when several healthy instances share the least load, least-connections
\* selects the one registered first among them.
C12_TieGoesToEarliestRegistered ==
    (strategy = "LB_LEAST_CONNECTIONS" /\ last_discover.ret.service_id # NULL) =>
        last_discover.ret.service_id = last_discover.earliest_min

\* TRUE when the dispatcher is between two messages: the one before is done with
DispatcherBetweenMessages ==
    d_pc \in {"lock", "check", "waiting", "woken", "pop"}

\* C13: every load increment made by a selection is undone when the use of
\* the selected node is over: once the dispatcher, the only selector here, is
\* done with a message, delivered or failed, every node's load is back at the
\* value it had before the selection, 0.
C13_LoadReleased ==
    DispatcherBetweenMessages => \A i \in 1..Len(services) : services[i].load = 0

\* C14: a call of register returns success and links exactly one node, which
\* carries the name, host and port given, health HEALTHY and load 0; the nodes
\* registered before stay as they were, in membership, health and load.
C14_RegisterAddsOneNode ==
    [][Len(reg_log') = Len(reg_log) + 1 =>
          LET call == reg_log'[Len(reg_log')]
          IN  /\ call.ret = 0
              /\ Len(services') = Len(services) + 1
              /\ num_services' = num_services + 1
              /\ \E n \in 1..Len(services') :
                    /\ services'[n].service_name = call.name
                    /\ services'[n].host = call.host
                    /\ services'[n].port = call.port
                    /\ services'[n].health_status = HEALTHY
                    /\ services'[n].load = 0
                    /\ \A i \in 1..Len(services) :
                          services[i] = services'[IF i < n THEN i ELSE i + 1]
    ]_vars

\* C14 witness: a second node was registered when the first one had been
\* selected and then found UNHEALTHY.
C14_Witness ==
    /\ Len(reg_log) = 2
    /\ Len(services) = 2
    /\ services[1].health_status = HEALTHY
    /\ services[1].load = 0
    /\ services[2].health_status = UNHEALTHY
    /\ services[2].load = 1
    /\ n_sel = 1
    /\ last_discover.n_known = 1

\* C15: the value register returns is the identifier of the node that call
\* created.
C15_RegisterReturnsId ==
    \A k \in 1..Len(reg_log) :
        k <= Len(services) => reg_log[k].ret = services[Len(services) - k + 1].service_id

\* C16: no two nodes of the registry have the same identifier, and each node
\* carries one service name, the one it was registered with.
C16_UniqueIds ==
    /\ \A i, j \in 1..Len(services) :
          services[i].service_id = services[j].service_id => i = j
    /\ \A i \in 1..Len(services) :
          services[i].service_name = reg_log[Len(services) - i + 1].name

\* C16 witness: two nodes of the same service, registered around a discover
\* and a health-check round.
C16_Witness ==
    /\ Len(services) = 2
    /\ services[1].service_name = services[2].service_name
    /\ services[1].service_id # services[2].service_id
    /\ services[2].load = 1
    /\ services[2].health_status = UNHEALTHY

\* C17: once the deregistration of a node has been asked for, the node is no
\* longer in the registry, so that discover cannot return it and the health
\* checker cannot probe it.
C17_DeregisterRemoves ==
    \A id \in dereg_asked :
        /\ \A i \in 1..Len(services) : services[i].service_id # id
        /\ last_discover.ret.service_id # id
        /\ (hc_cur # NULL => services[hc_cur].service_id # id)

\* the queue as the dispatcher will meet it: the messages from head on
RECURSIVE QueueSeq(_, _)
QueueSeq(msgs, h) ==
    IF h = NULL THEN <<>> ELSE <<h>> \o QueueSeq(msgs, msgs[h].next)

\* a message's content, its link left out
Content(msg) ==
    [from_service |-> msg.from_service, to_service |-> msg.to_service,
     payload |-> msg.payload, priority |-> msg.priority]

\* C18: a call of send_message returns 0 (accepted) whatever the destination
\* and whatever the dispatcher is doing; it puts exactly one message at the
\* tail of the queue, the messages queued before keeping their order and
\* content, wakes a waiting dispatcher, and changes nothing else: not the
\* registry, not the load balancer, not what the dispatcher holds.
C18_SendOnlyAppends ==
    [][next_msg' # next_msg =>
          /\ send_rets' = {0}
          /\ next_msg' = next_msg + 1
          /\ QueueSeq(messages', mq_head') = Append(QueueSeq(messages, mq_head), next_msg)
          /\ mq_tail' = next_msg
          /\ DOMAIN messages' = DOMAIN messages \cup {next_msg}
          /\ \A m \in DOMAIN messages : Content(messages'[m]) = Content(messages[m])
          /\ d_pc' = (IF d_pc = "waiting" THEN "woken" ELSE d_pc)
          /\ UNCHANGED <<regVars, q_lock, d_msg, d_target, deq_order, dispatched>>
    ]_vars

\* C18 witness: while the dispatcher was delivering a message, two more were
\* accepted, the last one for a service that is not registered.
C18_Witness ==
    /\ send_rets = {0}
    /\ d_pc = "deliver"
    /\ QueueSeq(messages, mq_head) = <<2, 3>>
    /\ d_msg = 1
    /\ ~Registered(services, messages[3].to_service)

\* C19: after a probe the instance is HEALTHY if and only if the connection
\* succeeded and the bytes received are exactly "OK"; it is UNHEALTHY after a
\* connection failure, a timeout or empty response, and any other response,
\* whatever the receive buffer held before.
C19_HealthyIffExactlyOK ==
    last_probe.probed =>
        (last_probe.status = HEALTHY <=>
            (last_probe.connected /\ last_probe.resp = <<"O", "K">>))

\* C20: when the service has no HEALTHY instance, discover returns no node,
\* no node's load changes and the round-robin counter stays where it was.
C20_NoHealthyNoEffect ==
    (last_discover.name # "" /\ last_discover.n_healthy = 0) =>
        /\ last_discover.ret.service_id = NULL
        /\ ~last_discover.loads_changed
        /\ ~last_discover.index_changed

\* C20 witness: the only instance of a service, selected once before, was
\* found UNHEALTHY and the next discover for the service returned nothing.
C20_Witness ==
    /\ last_discover.name # ""
    /\ last_discover.n_known = 1
    /\ last_discover.n_healthy = 0
    /\ last_discover.ret.service_id = NULL
    /\ current_index = 1
    /\ \E i \in 1..Len(services) :
          /\ services[i].service_name = last_discover.name
          /\ services[i].load = 1

\* C21: a successful selection increments the load of the node it returns by
\* exactly 1 and leaves everything else as it was: the load of every other
\* node, the health of every node, and the nodes registered.
C21_SelectionBumpsOneLoad ==
    [][n_sel' = n_sel + 1 =>
          /\ num_services' = num_services
          /\ \E p \in 1..Len(services) :
                /\ services[p].service_id = last_discover'.ret.service_id
                /\ services' = [services EXCEPT ![p].load = services[p].load + 1]
    ]_vars

\* C21 witness: the second of two selections, made with another node in the
\* registry that is UNHEALTHY and carries a load of its own.
C21_Witness ==
    /\ n_sel = 2
    /\ Len(services) = 2
    /\ \E p, q \in 1..2 :
          /\ p # q
          /\ services[p].service_id = last_discover.ret.service_id
          /\ services[p].load = 1
          /\ services[q].load = 1
          /\ services[q].health_status = UNHEALTHY

\* C23: the health checker does not hold the registry lock while a probe is
\* in progress.
C23_ProbesWithoutLock ==
    (hc_pc = "probing" /\ hc_cur # NULL) => reg_lock # "hc"

\* TRUE when both workers have left their loops; the loops of lines 211 and
\* 257 have no exit
WorkersStopped ==
    /\ hc_pc = "stopped"
    /\ d_pc = "stopped"

\* C22: once the shutdown of the orchestrator has been asked for, the
\* health-check worker and the dispatcher worker both eventually terminate.
C22_ShutdownStopsWorkers ==
    stop_asked ~> WorkersStopped

\* the dispatcher holds a popped message and works on it
DispatcherAtWork ==
    d_pc \in {"discover", "deliver", "free"}

\* C24: no thread holds the registry lock and the queue lock together: the
\* dispatcher has released the queue lock when it goes for the registry lock,
\* the health checker never has the queue lock, and whoever holds one of the
\* locks can go on without waiting for the other, so that no deadlock arises.
C24_OneLockAtATime ==
    /\ \A t \in {"hc", "dispatcher"} : ~(reg_lock = t /\ q_lock = t)
    /\ d_pc = "discover" => q_lock # "dispatcher"
    /\ q_lock = "dispatcher" => ENABLED (D_Check \/ D_Pop)
    /\ reg_lock = "hc" => ENABLED health_check_worker

\* C24 witness: the health checker holds the registry lock in the middle of a
\* round while the dispatcher holds the queue lock, about to pop.
C24_Witness ==
    /\ reg_lock = "hc"
    /\ hc_cur = 2
    /\ q_lock = "dispatcher"
    /\ d_pc = "pop"

RECURSIVE SumLoads(_, _)
SumLoads(svcs, i) ==
    IF i > Len(svcs) THEN 0 ELSE svcs[i].load + SumLoads(svcs, i + 1)

\* TRUE of a step that writes nothing but the health of the node at position p
OnlyHealthOf(p) ==
    /\ Len(services') = Len(services)
    /\ \A i \in 1..Len(services) :
          services'[i] = (IF i = p THEN [services[i] EXCEPT !.health_status =
                                             services'[i].health_status]
                          ELSE services[i])

\* C25: the registry is written under its lock only: while the health checker
\* holds the lock nobody else writes the list, a health or a load, and the
\* health checker writes only while it holds it; the list has as many nodes
\* as registrations were completed, and the loads add up to the number of
\* successful selections.
C25_RegistrySerialized ==
    /\ [](/\ Len(services) = Len(reg_log)
          /\ num_services = Len(reg_log)
          /\ SumLoads(services, 1) = n_sel)
    /\ [][services' # services =>
              \/ reg_lock = "hc" /\ reg_lock' = "hc" /\ OnlyHealthOf(hc_cur)
              \/ reg_lock = "none" /\ reg_lock' = "none" /\ hc_pc = "idle"
       ]_vars

\* C25 witness: two registrations and three selections, made around
\* health-check rounds that changed the health of a node.
C25_Witness ==
    /\ Len(reg_log) = 2
    /\ n_sel = 3
    /\ reg_lock = "hc"
    /\ \E i \in 1..2 : services[i].health_status = UNHEALTHY /\ services[i].load >= 1

\* C26: the dispatcher has released the queue lock when it resolves the
\* destination, delivers and frees the message it popped, and send_message
\* can enqueue meanwhile.
C26_WorksWithoutQueueLock ==
    DispatcherAtWork =>
        /\ q_lock = "none"
        /\ next_msg <= MaxMsgs => ENABLED ClientSend

\* C26 witness: a delivery is in progress and a message sent after the
\* dispatcher popped that one is in the queue.
C26_Witness ==
    /\ d_pc = "deliver"
    /\ d_msg = 2
    /\ mq_head = 3
    /\ Len(dispatched) = 1
    /\ next_msg <= MaxMsgs + 1

\* C27: the dispatcher is never blocked on the not-empty condition while the
\* queue holds a message, and it pops only with the lock held and the queue
\* found non-empty, also after a wakeup nobody signalled.
C27_NoLostWakeup ==
    /\ d_pc = "waiting" => (mq_head = NULL /\ q_lock # "dispatcher")
    /\ d_pc = "pop" => (mq_head # NULL /\ q_lock = "dispatcher")

\* C27 witness: the dispatcher, woken without a signal, tests an empty queue
\* again after it has processed a message.
C27_Witness ==
    /\ d_pc = "check"
    /\ mq_head = NULL
    /\ Len(dispatched) = 1
    /\ next_msg = 2

\* the messages in the queue
Queued ==
    {QueueSeq(messages, mq_head)[i] : i \in 1..Len(QueueSeq(messages, mq_head))}

\* C28: every message allocated and not freed is either in the queue or held
\* by the dispatcher, never both; the message the dispatcher popped is not
\* reachable from head or tail; the links of the queue lead to live messages
\* only, and the dispatcher works on a message that is not freed.
C28_OneOwner ==
    /\ mq_head # NULL => mq_head \in DOMAIN messages
    /\ \A m \in DOMAIN messages : messages[m].next # NULL => messages[m].next \in DOMAIN messages
    /\ DOMAIN messages = Queued \cup (IF d_msg = NULL THEN {} ELSE {d_msg})
    /\ d_msg \notin Queued
    /\ mq_tail # d_msg \/ d_msg = NULL
    /\ mq_tail = (IF mq_head = NULL THEN NULL
                  ELSE QueueSeq(messages, mq_head)[Len(QueueSeq(messages, mq_head))])
    /\ DispatcherAtWork <=> d_msg # NULL
    /\ \A i \in 1..Len(dispatched) :
          dispatched[i].msg \in DOMAIN messages => dispatched[i].msg = d_msg

\* C28 witness: the first message is freed, the dispatcher holds the second
\* one, the only one that was in the queue, and the third sits in the queue.
C28_Witness ==
    /\ DOMAIN messages = {2, 3}
    /\ d_msg = 2
    /\ d_pc = "free"
    /\ mq_head = 3
    /\ mq_tail = 3

NoDuplicates(q) ==
    \A i, j \in 1..Len(q) : q[i] = q[j] => i = j

\* C29: every message is dequeued once and processed once: deliver is invoked
\* once when a target was resolved and not at all otherwise, and a message
\* processed, whatever the outcome, is not in the queue again.
C29_NoRetry ==
    /\ NoDuplicates(deq_order)
    /\ NoDuplicates(DispatchedMsgs)
    /\ \A i \in 1..Len(dispatched) :
          /\ dispatched[i].msg \notin Queued
          /\ \E k \in 1..Len(deq_order) : deq_order[k] = dispatched[i].msg
    /\ d_pc = "deliver" => (d_target.service_id # NULL /\ ~Processed(d_msg))
    /\ d_pc = "free" =>
          \E i \in 1..Len(dispatched) :
              /\ dispatched[i].msg = d_msg
              /\ dispatched[i].outcome = "notarget" <=> d_target.service_id = NULL

\* C29 witness: of three messages one failed at delivery and one found no
\* target; the queue is empty and the dispatcher waits.
C29_Witness ==
    /\ Len(dispatched) = 3
    /\ \E i, j \in 1..3 : dispatched[i].outcome = "failed" /\ dispatched[j].outcome = "notarget"
    /\ mq_head = NULL
    /\ d_pc = "waiting"
    /\ DOMAIN messages = {}

\* the node registered k-th, wherever later registrations have moved it
NodeNo(svcs, k) ==
    svcs[Len(svcs) - k + 1]

\* C30: the health status of a registered node changes in a probe of the
\* health checker only: register, selection, send_message and the dispatcher
\* leave the health of every existing node as it is.
C30_OnlyHealthCheckerWritesHealth ==
    [][\A k \in 1..Len(services) :
           NodeNo(services', k).health_status # NodeNo(services, k).health_status =>
               /\ hc_pc = "probing"
               /\ reg_lock = "hc"
               /\ hc_cur = Len(services) - k + 1
               /\ UNCHANGED <<qVars, num_services>>
    ]_vars

\* C30 witness: a node that was selected for a message and then found
\* UNHEALTHY is still UNHEALTHY after a second node was registered and a
\* second message was delivered to that one.
C30_Witness ==
    /\ Len(services) = 2
    /\ services[2].health_status = UNHEALTHY
    /\ services[2].load = 1
    /\ services[1].load = 1
    /\ Len(dispatched) = 2
    /\ dispatched[2].outcome = "delivered"

\* TRUE of a step of the health checker: it alone moves hc_pc and hc_cur
HealthCheckStep ==
    hc_pc' # hc_pc \/ hc_cur' # hc_cur

\* C31: a step of the health-check round changes nothing but health_status:
\* the set of registered nodes, their identity and load, the round-robin
\* counter and the message queue stay as they are, and nothing a caller was
\* returned changes.
C31_HealthCheckChangesOnlyHealth ==
    [][HealthCheckStep =>
           /\ Len(services') = Len(services)
           /\ \A i \in 1..Len(services) :
                 services'[i] = [services[i] EXCEPT !.health_status = services'[i].health_status]
           /\ UNCHANGED <<num_services, strategy, current_index, next_id>>
           /\ UNCHANGED <<qVars, qHist>>
           /\ UNCHANGED <<last_discover, rets_unregistered, rets_nohealthy, reg_log, send_rets>>
    ]_vars

\* C31 witness: a round has ended that left the node carrying a load
\* UNHEALTHY and the other one HEALTHY, with a message waiting in the queue.
C31_Witness ==
    /\ hc_pc = "probing"
    /\ hc_cur = NULL
    /\ Len(services) = 2
    /\ services[2].health_status = UNHEALTHY
    /\ services[2].load = 1
    /\ services[1].health_status = HEALTHY
    /\ mq_head # NULL

\* the health checker is about to probe the node registered k-th
AboutToProbe(k) ==
    /\ hc_pc = "probing"
    /\ Len(services) >= k
    /\ hc_cur = Len(services) - k + 1

\* every registered node is probed again and again, whatever its health
EveryNodeProbedAgain ==
    \A k \in 1..MaxNodes : []<>(Len(services) >= k => AboutToProbe(k))

\* C32: under fair scheduling, a registered node whose probes succeed from
\* some moment on (the peer accepts the connection and answers OK) is
\* eventually HEALTHY, and so eligible for discover again, whatever its
\* health was.
C32_UnhealthyNodeRecovers ==
    \A k \in 1..MaxNodes :
        (peers_up /\ Len(services) >= k) ~>
            (Len(services) >= k /\ NodeNo(services, k).health_status = HEALTHY)

\* how many of the completed calls had the outcome x
CountOf(log, x) ==
    Cardinality({i \in 1..Len(log) : log[i] = x})

\* C33: a successful call on a CLOSED breaker leaves state, failure_count and
\* last_failure_time as they were, so failures add up across successes: the
\* breaker is OPEN after failure_threshold failing calls also when successful
\* calls came between them, and CLOSED with every failure counted before.
C33_ClosedSuccessNoOp ==
    /\ (cb_pc[1] = "idle" /\ cb_entry[1].cb.state = "CLOSED"
            /\ cb_invoked[1] /\ cb_result[1] = 0) =>
          cb = cb_entry[1].cb
    /\ (cb_pc[1] = "idle" /\ CountOf(cb_log, "rejected") = 0
            /\ CountOf(cb_log, "fail") < cb.failure_threshold) =>
          (cb.state = "CLOSED" /\ cb.failure_count = CountOf(cb_log, "fail"))
    /\ (cb_pc[1] = "idle" /\ CountOf(cb_log, "rejected") = 0
            /\ CountOf(cb_log, "fail") = cb.failure_threshold
            /\ cb_log[Len(cb_log)] = "fail") =>
          cb.state = "OPEN"

\* C33 witness: a breaker of threshold 2 is OPEN after a failing call, a
\* successful one and a second failing one.
C33_Witness ==
    /\ cb_pc[1] = "idle"
    /\ cb.failure_threshold = 2
    /\ cb_log = <<"fail", "ok", "fail">>
    /\ cb.state = "OPEN"
    /\ cb.failure_count = 2

\* C34: between two calls made one at a time, a CLOSED breaker has
\* failure_count below failure_threshold and an OPEN breaker has
\* failure_count at or above it, for every threshold of at least 1.
C34_StateMatchesCount ==
    cb_pc[1] = "idle" =>
        /\ cb.state = "CLOSED" => cb.failure_count < cb.failure_threshold
        /\ cb.state = "OPEN" => cb.failure_count >= cb.failure_threshold

\* C34 witness: a breaker of threshold 2 is OPEN with three failures counted,
\* the third one that of a trial call.
C34_Witness ==
    /\ cb_pc[1] = "idle"
    /\ cb.failure_threshold = 2
    /\ cb.state = "OPEN"
    /\ cb.failure_count = 3
    /\ cb_log = <<"fail", "fail", "fail">>

\* C35: with calls made one at a time the breaker is not HALF_OPEN when a
\* call has returned: it is HALF_OPEN only inside the trial call, which found
\* it OPEN with the timeout elapsed; a call invokes the wrapped function at
\* most once and returns what the function returned.
C35_TrialCallSettles ==
    /\ cb_pc[1] = "idle" => cb.state \in {"CLOSED", "OPEN"}
    /\ cb.state = "HALF_OPEN" => (cb_pc[1] # "idle" /\ EnteredOpenExpired(1))
    /\ cb_pc[1] = "func" => ~cb_invoked[1]
    /\ cb_pc[1] \in {"success", "failure", "store"} => cb_invoked[1]
    /\ (cb_pc[1] = "idle" /\ cb_invoked[1]) => cb_ret[1] = cb_result[1]

\* C35 witness: a trial call whose function returned 1 has returned 1 and
\* left the breaker OPEN; the call before it was rejected.
C35_Witness ==
    /\ cb_pc[1] = "idle"
    /\ EnteredOpenExpired(1)
    /\ cb_invoked[1]
    /\ cb_result[1] = 1
    /\ cb_ret[1] = 1
    /\ cb.state = "OPEN"
    /\ Len(cb_log) >= 2
    /\ cb_log[Len(cb_log) - 1] = "rejected"

\* C36: the round-robin counter is one for the load balancer, not one per
\* service: starting from 0 it equals the number of successful selections
\* made so far for all names together (a failed selection adds nothing), and
\* the instance a selection returns is the one at that number modulo the
\* healthy instances of the name, so a selection for another service made
\* in between changes which instance comes next.
C36_OneCounterForAllServices ==
    strategy = "LB_ROUND_ROBIN" =>
        /\ current_index = n_sel
        /\ last_discover.ret.service_id # NULL =>
              /\ last_discover.index_changed
              /\ last_discover.index = (n_sel - 1) % last_discover.n_healthy
        /\ (last_discover.name # "" /\ last_discover.ret.service_id = NULL) =>
              ~last_discover.index_changed

\* C36 witness: with two healthy instances of payments and one of billing,
\* the selections payments, billing, payments returned the same instance of
\* payments twice.
C36_Witness ==
    /\ n_sel = 3
    /\ current_index = 3
    /\ Cardinality(HealthySet(services, "payments")) = 2
    /\ Len(rr_hist["billing"]) = 1
    /\ Len(rr_hist["payments"]) = 2
    /\ rr_hist["payments"][1] = rr_hist["payments"][2]
    /\ last_discover.name = "payments"

\* C37: in every round-robin selection with at least one healthy instance
\* the index current_index % num_instances lies in [0, num_instances), also
\* after current_index has wrapped past INT_MAX.
C37_IndexWithinBounds ==
    (strategy = "LB_ROUND_ROBIN" /\ last_discover.name # "" /\ last_discover.n_healthy >= 1) =>
        /\ 0 <= last_discover.index
        /\ last_discover.index < last_discover.n_healthy

\* C38: with the strategy LB_WEIGHTED or LB_IP_HASH a selection returns no
\* instance and increments no load, also when the service has healthy
\* instances: discover returns nothing and the dispatcher finds no target
\* for any message and never calls deliver.
C38_UnimplementedStrategiesSelectNothing ==
    strategy \in {"LB_WEIGHTED", "LB_IP_HASH"} =>
        /\ last_discover.name # "" =>
              /\ last_discover.ret.service_id = NULL
              /\ ~last_discover.loads_changed
              /\ ~last_discover.index_changed
        /\ \A i \in 1..Len(services) : services[i].load = 0
        /\ current_index = 0
        /\ d_pc # "deliver"
        /\ d_target.service_id = NULL
        /\ \A i \in 1..Len(dispatched) : dispatched[i].outcome = "notarget"

\* C38 witness: under LB_IP_HASH a discover for a service with two healthy
\* instances returned nothing, and the dispatcher found no target for a
\* message to a service that has a healthy instance.
C38_Witness ==
    /\ strategy = "LB_IP_HASH"
    /\ last_discover.n_healthy = 2
    /\ last_discover.ret.service_id = NULL
    /\ d_pc = "free"
    /\ HealthySet(services, messages[d_msg].to_service) # {}
    /\ dispatched[Len(dispatched)] = [msg |-> d_msg, outcome |-> "notarget"]

\* C39: whenever the queue lock is free, head is NULL exactly when tail is
\* NULL, and in a queue that is not empty tail is a live message whose next
\* is NULL and which is the last one reached from head; so also after the
\* only message was popped and another one was enqueued.
C39_QueueWellFormed ==
    q_lock = "none" =>
        /\ mq_head = NULL <=> mq_tail = NULL
        /\ mq_head # NULL =>
              /\ mq_tail \in DOMAIN messages
              /\ messages[mq_tail].next = NULL
              /\ QueueSeq(messages, mq_head)[Len(QueueSeq(messages, mq_head))] = mq_tail

\* C39 witness: the dispatcher popped the only message, processed it and
\* went to wait on the empty queue; a message enqueued since is head and tail.
C39_Witness ==
    /\ q_lock = "none"
    /\ d_pc = "woken"
    /\ deq_order = <<1>>
    /\ Len(dispatched) = 1
    /\ mq_head = 2
    /\ mq_tail = 2
    /\ messages[2].next = NULL

====
